---- MODULE Spec2Model ----
(***************************************************************************)
(* A model of the call-of-duty-api client (src/src/src/index.ts): the      *)
(* module-level session state, the two login operations, the identity      *)
(* resolver, the endpoint templates, the three request dispatchers and     *)
(* the title adapters built from them; and of the web server built on it   *)
(* (src/server.js): its session map, its route handlers and their          *)
(* timeouts.                                                               *)
(*                                                                         *)
(* Strings that the code inspects character by character (handles, tokens, *)
(* credentials) are sequences of one-character strings.  Enum values and   *)
(* literal text are TLA+ strings.  A path is the sequence of the pieces of *)
(* its template: the literal text cut at every "/" and at every            *)
(* interpolation, and one element per interpolated value.                  *)
(***************************************************************************)
EXTENDS Integers, Sequences, FiniteSets, TLC

VARIABLES
    loggedIn,              \* index.ts:52
    baseHeaders,           \* index.ts:22
    basePostHeaders,       \* index.ts:42
    baseSsoToken,          \* index.ts:9
    telescopeUnoToken,     \* index.ts:124
    baseTelescopeHeaders,  \* index.ts:28
    legacyLoginDone,       \* history: login(token) has returned true
    telescopeLoginDone,    \* history: telescopeLogin has returned true
    call,                  \* the caller's current library call and its outcome
    rHandle,               \* resolver runs: the handle under resolution
    rLast,                 \* resolver runs: the latest resolution
    rPrev,                 \* resolver runs: the resolution before it
    activeSessions,        \* server.js:215
    handlers               \* server.js: the route handlers in progress

vars == <<loggedIn, baseHeaders, basePostHeaders, baseSsoToken,
          telescopeUnoToken, baseTelescopeHeaders, legacyLoginDone,
          telescopeLoginDone, call, rHandle, rLast, rPrev,
          activeSessions, handlers>>

session == <<loggedIn, baseHeaders, basePostHeaders, baseSsoToken,
             telescopeUnoToken, baseTelescopeHeaders>>

history == <<legacyLoginDone, telescopeLoginDone>>

resolverVars == <<rHandle, rLast, rPrev>>

server == <<activeSessions, handlers>>

----------------------------------------------------------------------------
(* Bounds *)

MaxHandleLen == 2

----------------------------------------------------------------------------
(* Character strings *)

Digits == {"0", "1", "2", "3", "4", "5", "6", "7", "8", "9"}

HexDigits == Digits \cup {"a", "b", "c", "d", "e", "f", "A", "B", "C", "D", "E", "F"}

OctalDigits == {"0", "1", "2", "3", "4", "5", "6", "7"}

BinaryDigits == {"0", "1"}

WhiteSpace == {" "}

RECURSIVE SeqsUpTo(_, _)
SeqsUpTo(S, n) ==
    IF n = 0 THEN {<<>>}
    ELSE LET shorter == SeqsUpTo(S, n - 1)
         IN  shorter \cup {Append(s, c) : s \in shorter, c \in S}

AllIn(s, S) == \A i \in 1..Len(s) : s[i] \in S

IsDigits(s) == Len(s) > 0 /\ AllIn(s, Digits)

\* String.prototype.trim: drop the white space at both ends.
RECURSIVE TrimStart(_)
TrimStart(s) ==
    IF s # <<>> /\ Head(s) \in WhiteSpace THEN TrimStart(Tail(s)) ELSE s

RECURSIVE TrimEnd(_)
TrimEnd(s) ==
    IF s # <<>> /\ s[Len(s)] \in WhiteSpace
    THEN TrimEnd(SubSeq(s, 1, Len(s) - 1))
    ELSE s

trim(s) == TrimEnd(TrimStart(s))

\* Index of the first element of s that is in S, 0 when there is none.
FirstIn(s, S) ==
    IF \E i \in 1..Len(s) : s[i] \in S
    THEN CHOOSE i \in 1..Len(s) : s[i] \in S /\ \A j \in 1..(i - 1) : s[j] \notin S
    ELSE 0

StripSign(s) == IF s # <<>> /\ Head(s) \in {"+", "-"} THEN Tail(s) ELSE s

\* DecimalDigits . DecimalDigits(opt) | . DecimalDigits | DecimalDigits
IsMantissa(s) ==
    LET dot == FirstIn(s, {"."})
    IN  IF dot = 0 THEN IsDigits(s)
        ELSE LET int  == SubSeq(s, 1, dot - 1)
                 frac == SubSeq(s, dot + 1, Len(s))
             IN  /\ AllIn(int, Digits)
                 /\ AllIn(frac, Digits)
                 /\ Len(int) + Len(frac) > 0

\* StrUnsignedDecimalLiteral of the ECMAScript StringNumericLiteral grammar.
IsUnsignedDecimal(s) ==
    \/ s = <<"I", "n", "f", "i", "n", "i", "t", "y">>
    \/ LET e == FirstIn(s, {"e", "E"})
       IN  IF e = 0 THEN IsMantissa(s)
           ELSE /\ IsMantissa(SubSeq(s, 1, e - 1))
                /\ IsDigits(StripSign(SubSeq(s, e + 1, Len(s))))

\* NonDecimalIntegerLiteral: 0x.., 0o.., 0b..
IsNonDecimalInteger(s) ==
    /\ Len(s) >= 3
    /\ s[1] = "0"
    /\ LET rest == SubSeq(s, 3, Len(s))
       IN  \/ s[2] \in {"x", "X"} /\ AllIn(rest, HexDigits)
           \/ s[2] \in {"o", "O"} /\ AllIn(rest, OctalDigits)
           \/ s[2] \in {"b", "B"} /\ AllIn(rest, BinaryDigits)

\* isNaN(Number(s)) for a string s: Number() trims white space, reads the
\* empty string as 0 and anything outside the numeric grammar as NaN.
isNaNNumber(s) ==
    LET t == trim(s)
    IN  /\ t # <<>>
        /\ ~IsUnsignedDecimal(StripSign(t))
        /\ ~IsNonDecimalInteger(t)

\* encodeURIComponent: every character except the unreserved ones
\* (letters, digits, - _ . ! ~ * ' ( )) is replaced by its escape.
Letters ==
    {"a", "b", "c", "d", "e", "f", "g", "h", "i", "j", "k", "l", "m",
     "n", "o", "p", "q", "r", "s", "t", "u", "v", "w", "x", "y", "z",
     "A", "B", "C", "D", "E", "F", "G", "H", "I", "J", "K", "L", "M",
     "N", "O", "P", "Q", "R", "S", "T", "U", "V", "W", "X", "Y", "Z"}

UriUnreserved ==
    Letters \cup Digits \cup {"-", "_", ".", "!", "~", "*", "'", "(", ")"}

UriEscape(c) ==
    CASE c = " " -> <<"%", "2", "0">>
      [] c = "#" -> <<"%", "2", "3">>
      [] c = "+" -> <<"%", "2", "B">>
      [] c = "/" -> <<"%", "2", "F">>

RECURSIVE encodeURIComponent(_)
encodeURIComponent(s) ==
    IF s = <<>> THEN <<>>
    ELSE (IF Head(s) \in UriUnreserved THEN <<Head(s)>> ELSE UriEscape(Head(s)))
         \o encodeURIComponent(Tail(s))

cleanClientName(gamertag) == encodeURIComponent(gamertag)

----------------------------------------------------------------------------
(* Identity and platform resolver *)

\* Object.values(platforms)
platforms == {"all", "acti", "battle", "psn", "steam", "uno", "xbl", "ios", "_"}

STEAM_UNSUPPORTED == "Steam platform not supported by this game."

UNO_NO_NUMERICAL_ID == "You must use a numerical ID when using the platform uno."

PLATFORM_NOT_VALID == "Platform is not valid."

NoError == ""

\* handleLookupType applied to the platform after the acti-to-uno rewrite.
handleLookupTypeAfterRewrite(platform) ==
    IF platform \in {"uno", "acti"} THEN "id" ELSE "gamer"

handleLookupType(platform) == IF platform = "uno" THEN "id" ELSE "gamer"

\* checkForValidPlatform without the test of the platform against the enum.
checkForValidPlatformAnyTag(platform, gamertag) ==
    IF gamertag # <<>> /\ isNaNNumber(gamertag) /\ platform = "uno"
    THEN UNO_NO_NUMERICAL_ID
    ELSE NoError

\* The message of the error checkForValidPlatform throws, NoError when it
\* returns normally.  A string is truthy when it is not empty.
checkForValidPlatform(platform, gamertag) ==
    IF platform \notin platforms THEN PLATFORM_NOT_VALID
    ELSE IF gamertag # <<>> /\ isNaNNumber(gamertag) /\ platform = "uno"
         THEN UNO_NO_NUMERICAL_ID
         ELSE NoError

Thrown(msg) ==
    [ok |-> FALSE, error |-> msg, gamertag |-> <<>>, _platform |-> "", lookupType |-> ""]

NoResolution ==
    [applied |-> FALSE, platform |-> "", steamSupport |-> FALSE, out |-> Thrown(NoError)]

\* mapGamertagToPlatform without the steam check.
mapGamertagToPlatformSteamUnchecked(gamertag, platform, steamSupport) ==
    LET check == checkForValidPlatform(platform, gamertag)
    IN  IF check # NoError THEN Thrown(check)
        ELSE [ok |-> TRUE,
              error |-> NoError,
              gamertag |->
                  IF /\ platform \in {"battle", "acti", "uno"}
                     /\ gamertag # <<>>
                  THEN cleanClientName(gamertag)
                  ELSE gamertag,
              _platform |-> IF platform \in {"uno", "acti"} THEN "uno" ELSE platform,
              lookupType |-> handleLookupType(platform)]

\* mapGamertagToPlatform encoding the handle on every platform.
mapGamertagToPlatformAlwaysEncoded(gamertag, platform, steamSupport) ==
    LET check == checkForValidPlatform(platform, gamertag)
        lookupType == handleLookupType(platform)
    IN  IF check # NoError THEN Thrown(check)
        ELSE IF ~steamSupport /\ platform = "steam" THEN Thrown(STEAM_UNSUPPORTED)
        ELSE [ok |-> TRUE,
              error |-> NoError,
              gamertag |-> IF gamertag # <<>> THEN cleanClientName(gamertag) ELSE gamertag,
              _platform |-> IF platform \in {"uno", "acti"} THEN "uno" ELSE platform,
              lookupType |-> lookupType]

\* mapGamertagToPlatform rejecting steam whatever the override.
mapGamertagToPlatformSteamRejected(gamertag, platform, steamSupport) ==
    LET check == checkForValidPlatform(platform, gamertag)
        lookupType == handleLookupType(platform)
    IN  IF check # NoError THEN Thrown(check)
        ELSE IF platform = "steam" THEN Thrown(STEAM_UNSUPPORTED)
        ELSE [ok |-> TRUE,
              error |-> NoError,
              gamertag |->
                  IF /\ platform \in {"battle", "acti", "uno"}
                     /\ gamertag # <<>>
                  THEN cleanClientName(gamertag)
                  ELSE gamertag,
              _platform |-> IF platform \in {"uno", "acti"} THEN "uno" ELSE platform,
              lookupType |-> lookupType]

mapGamertagToPlatform(gamertag, platform, steamSupport) ==
    LET check == checkForValidPlatform(platform, gamertag)
        lookupType == handleLookupType(platform)
    IN  IF check # NoError THEN Thrown(check)
        ELSE IF ~steamSupport /\ platform = "steam" THEN Thrown(STEAM_UNSUPPORTED)
        ELSE [ok |-> TRUE,
              error |-> NoError,
              gamertag |->
                  IF /\ platform \in {"battle", "acti", "uno"}
                     /\ gamertag # <<>>
                  THEN cleanClientName(gamertag)
                  ELSE gamertag,
              _platform |-> IF platform \in {"uno", "acti"} THEN "uno" ELSE platform,
              lookupType |-> lookupType]

----------------------------------------------------------------------------
(* Session state and the legacy login *)

userAgent == "Mozilla/5.0 (Windows NT 10.0; Win64; x64) Chrome/74.0.3729.169"

baseCookie == "new_SiteId=cod;ACT_SSO_LOCALE=en_US;country=US;"

fakeXSRF == "68e8b62e-1d9d-4ce1-b93f-cbe5ff31a041"

\* A header object is a function from the header names it holds to their
\* values; a value is the sequence of the pieces it is assembled from.
baseHeadersInit ==
    ("content-type" :> <<"application/json">>)
    @@ ("cookie" :> <<baseCookie>>)
    @@ ("user-agent" :> <<userAgent>>)

basePostHeadersInit ==
    ("content-type" :> <<"text/plain">>)
    @@ ("cookie" :> <<baseCookie>>)
    @@ ("user-agent" :> <<userAgent>>)

baseTelescopeHeadersInit ==
    ("accept" :> <<"application/json, text/plain, */*">>)
    @@ ("accept-language" :> <<"en-GB,en;q=0.9,en-US;q=0.8,fr;q=0.7,nl;q=0.6,et;q=0.5">>)
    @@ ("cache-control" :> <<"no-cache">>)
    @@ ("pragma" :> <<"no-cache">>)
    @@ ("sec-ch-ua" :> <<"Chromium;v=118, Microsoft Edge;v=118, Not=A?Brand;v=99">>)
    @@ ("sec-ch-ua-mobile" :> <<"?0">>)
    @@ ("sec-ch-ua-platform" :> <<"Windows">>)
    @@ ("sec-fetch-dest" :> <<"empty">>)
    @@ ("sec-fetch-mode" :> <<"cors">>)
    @@ ("sec-fetch-site" :> <<"same-site">>)

\* headers[name] = value, on an object that may or may not hold name yet.
SetHeader(headers, name, value) ==
    [n \in DOMAIN headers \cup {name} |-> IF n = name THEN value ELSE headers[n]]

\* The cookie string login builds (index.ts:223 and :232).
loginCookie(ssoToken) ==
    <<baseCookie, "ACT_SSO_COOKIE=">> \o ssoToken
    \o <<";XSRF-TOKEN=", fakeXSRF, ";API_CSRF_TOKEN=", fakeXSRF,
         ";ACT_SSO_EVENT=LOGIN_SUCCESS:1644346543228;ACT_SSO_COOKIE_EXPIRY=1645556143194;comid=cod;ssoDevId=63025d09c69f47dfa2b8d5520b5b73e4;tfa_enrollment_seen=true;gtm.custom.bot.flag=human;">>

\* login extending the cookie the header object holds instead of baseCookie.
loginHeadersCookieAppended(headers, ssoToken) ==
    LET h1 == SetHeader(headers, "X-XSRF-TOKEN", <<fakeXSRF>>)
        h2 == SetHeader(h1, "X-CSRF-TOKEN", <<fakeXSRF>>)
        h3 == SetHeader(h2, "Atvi-Auth", ssoToken)
        h4 == SetHeader(h3, "ACT_SSO_COOKIE", ssoToken)
        h5 == SetHeader(h4, "atkn", ssoToken)
    IN  SetHeader(h5, "cookie", headers["cookie"] \o Tail(loginCookie(ssoToken)))

\* The six assignments login makes to a header object.
loginHeaders(headers, ssoToken) ==
    LET h1 == SetHeader(headers, "X-XSRF-TOKEN", <<fakeXSRF>>)
        h2 == SetHeader(h1, "X-CSRF-TOKEN", <<fakeXSRF>>)
        h3 == SetHeader(h2, "Atvi-Auth", ssoToken)
        h4 == SetHeader(h3, "ACT_SSO_COOKIE", ssoToken)
        h5 == SetHeader(h4, "atkn", ssoToken)
    IN  SetHeader(h5, "cookie", loginCookie(ssoToken))

\* The blank test without the trim.
isBlankTokenUntrimmed(ssoToken) == ssoToken = <<>>

\* !ssoToken || ssoToken.trim().length <= 0
isBlankToken(ssoToken) == ssoToken = <<>> \/ Len(trim(ssoToken)) <= 0

----------------------------------------------------------------------------
(* Network responses *)

\* What undici's request() can come back with: a rejection (net = "error")
\* or a status code and a body.  body is "json" for a JSON document of the
\* shape the reader expects, "other" for a JSON document without the member
\* it reads, "text" for a body that is not JSON.
Response(net, statusCode, body, accessToken) ==
    [net |-> net, statusCode |-> statusCode, body |-> body, accessToken |-> accessToken]

AccessTokens == {<<"A">>}

NetworkFailure == Response("error", 0, "text", <<>>)

NoResponse == Response("", 0, "", <<>>)

NOT_LOGGED_IN == <<"Not Logged In.">>

NOT_LOGGED_IN_TELESCOPE == <<"Not Logged In!">>

RECEIVED_STATUS_CODE(statusCode) ==
    <<"Received status code: ", ToString(statusCode), ". Route may be down or not exist.">>

NETWORK_ERROR == <<"connect ECONNREFUSED">>

JSON_PARSE_ERROR == <<"Unexpected token < in ", "JSON", " at position 0">>

UNDEFINED_PROPERTY == <<"Cannot read properties of undefined">>

----------------------------------------------------------------------------
(* The caller's calls *)

NoArgs ==
    [ssoToken |-> <<>>, username |-> <<>>, password |-> <<>>,
     gamertag |-> <<>>, platform |-> "", startTime |-> 0,
     endTime |-> 0, unoId |-> <<>>, matchId |-> <<>>, title |-> "",
     season |-> 0, gameId |-> "", bundleId |-> "", action |-> ""]

\* A call: the function called and its arguments, whether it is awaiting a
\* response ("pending") or settled ("done"), how it settled, the network
\* requests it issued and the response it received.  A login call also
\* records the value of baseSsoToken it found.
Idle ==
    [phase |-> "idle", fn |-> "", adapter |-> "", op |-> "", args |-> NoArgs,
     previousSsoToken |-> <<>>, kind |-> "", value |-> <<>>, name |-> "",
     error |-> <<>>, requests |-> <<>>, response |-> NoResponse]

\* The call returned value.
Returned(c, value) == [c EXCEPT !.phase = "done", !.kind = "return", !.value = value]

\* The call threw (its promise rejected with) an error of that name and message.
Threw(c, name, msg) ==
    [c EXCEPT !.phase = "done", !.kind = "throw", !.name = name, !.error = msg]

\* The call issued a network request and awaits the response.
Awaiting(c, req) == [c EXCEPT !.phase = "pending", !.requests = Append(c.requests, req)]

True == <<"true">>

False == <<"false">>

Tokens == {<<>>, <<" ">>, <<"T">>, <<" ", "T">>}

login(ssoToken) ==
    /\ call.phase = "idle"
    /\ LET c == [Idle EXCEPT !.fn = "login", !.args.ssoToken = ssoToken,
                             !.previousSsoToken = baseSsoToken]
       IN  IF isBlankToken(ssoToken)
           THEN /\ call' = Returned(c, False)
                /\ UNCHANGED <<session, history>>
           ELSE /\ baseHeaders' = loginHeaders(baseHeaders, ssoToken)
                /\ baseSsoToken' = ssoToken
                /\ basePostHeaders' = loginHeaders(basePostHeaders, ssoToken)
                /\ loggedIn' = TRUE
                /\ legacyLoginDone' = TRUE
                /\ call' = Returned(c, True)
                /\ UNCHANGED <<telescopeUnoToken, baseTelescopeHeaders, telescopeLoginDone>>
    /\ UNCHANGED <<resolverVars, server>>

----------------------------------------------------------------------------
(* The telescope login *)

telescope_login_endpoint ==
    "https://wzm-ios-loginservice.prod.demonware.net/v1/login/uno/?titleID=7100&client=shg-cod-jup-bnet"

Usernames == {<<>>, <<"u">>, <<" ">>}

Passwords == {<<>>, <<"p">>}

telescopeLoginBody(username, password) ==
    <<"{platform:ios,hardwareType:ios,auth:{email:">> \o username
    \o <<",password:">> \o password \o <<"},version:1492}">>

\* telescopeLogin testing the username only before it calls the network.
telescopeLoginPasswordUnchecked(username, password) ==
    /\ call.phase = "idle"
    /\ LET c == [Idle EXCEPT !.fn = "telescopeLogin",
                             !.args.username = username,
                             !.args.password = password]
       IN  IF username = <<>>
           THEN call' = Returned(c, False)
           ELSE call' = Awaiting(c, [base |-> telescope_login_endpoint,
                                     path |-> <<>>,
                                     method |-> "POST",
                                     headers |-> baseHeaders,
                                     body |-> telescopeLoginBody(username, password)])
    /\ UNCHANGED <<session, history, resolverVars, server>>

\* telescopeLogin up to its await (index.ts:243-256).
telescopeLogin(username, password) ==
    /\ call.phase = "idle"
    /\ LET c == [Idle EXCEPT !.fn = "telescopeLogin",
                             !.args.username = username,
                             !.args.password = password]
       IN  IF username = <<>> \/ password = <<>>
           THEN call' = Returned(c, False)
           ELSE call' = Awaiting(c, [base |-> telescope_login_endpoint,
                                     path |-> <<>>,
                                     method |-> "POST",
                                     headers |-> baseHeaders,
                                     body |-> telescopeLoginBody(username, password)])
    /\ UNCHANGED <<session, history, resolverVars, server>>

\* telescopeLogin from the response on (index.ts:258-269).
telescopeLoginResponse(r) ==
    /\ call.phase = "pending"
    /\ call.fn = "telescopeLogin"
    /\ IF r.net = "error"
       THEN /\ call' = Threw([call EXCEPT !.response = r], "Error", NETWORK_ERROR)
            /\ UNCHANGED <<loggedIn, telescopeUnoToken, telescopeLoginDone>>
       ELSE IF r.statusCode \in {200, 403} /\ r.body = "text"
       THEN /\ call' = Threw([call EXCEPT !.response = r], "SyntaxError", JSON_PARSE_ERROR)
            /\ UNCHANGED <<loggedIn, telescopeUnoToken, telescopeLoginDone>>
       ELSE IF r.statusCode \in {200, 403} /\ r.body = "other"
       THEN /\ call' = Threw([call EXCEPT !.response = r], "TypeError", UNDEFINED_PROPERTY)
            /\ UNCHANGED <<loggedIn, telescopeUnoToken, telescopeLoginDone>>
       ELSE /\ telescopeUnoToken' =
                   IF r.statusCode = 200 THEN r.accessToken ELSE telescopeUnoToken
            /\ loggedIn' = (r.statusCode = 200)
            /\ telescopeLoginDone' = (telescopeLoginDone \/ r.statusCode = 200)
            /\ call' = Returned([call EXCEPT !.response = r],
                                IF r.statusCode = 200 THEN True ELSE False)
    /\ UNCHANGED <<baseHeaders, basePostHeaders, baseSsoToken, baseTelescopeHeaders,
                   legacyLoginDone, resolverVars, server>>

----------------------------------------------------------------------------
(* Endpoint templates *)

baseUrl == "https://profile.callofduty.com"

apiPath == "/api/papi-client"

baseTelescopeUrl == "https://telescope.callofduty.com"

apiTelescopePath == "/api/ts-api"

\* new Endpoints(game, gamertag, platform, mode, lookupType)
NewEndpoints(game, gamertag, platform, mode, lookupType) ==
    [game |-> game, gamertag |-> gamertag, platform |-> platform,
     mode |-> mode, lookupType |-> lookupType]

\* combatHistoryWithDate without the details segment.
combatHistoryWithDateNoDetails(e, startTime, endTime) ==
    <<"crm", "cod", "v2", "title", e.game, "platform", e.platform, e.lookupType>>
    \o e.gamertag
    \o <<"matches", e.mode, "start", ToString(startTime), "end", ToString(endTime)>>

\* Endpoints.combatHistoryWithDate(startTime, endTime)
combatHistoryWithDate(e, startTime, endTime) ==
    <<"crm", "cod", "v2", "title", e.game, "platform", e.platform, e.lookupType>>
    \o e.gamertag
    \o <<"matches", e.mode, "start", ToString(startTime),
         "end", ToString(endTime), "details">>

\* Endpoints.breakdownWithDate(startTime, endTime)
breakdownWithDate(e, startTime, endTime) ==
    <<"crm", "cod", "v2", "title", e.game, "platform", e.platform, e.lookupType>>
    \o e.gamertag
    \o <<"matches", e.mode, "start", ToString(startTime), "end", ToString(endTime)>>

\* matchInfo with the mode of the Endpoints object in the mode segment.
matchInfoTitleMode(e, matchId) ==
    <<"crm", "cod", "v2", "title", e.game, "platform", e.platform, "fullMatch", e.mode>>
    \o matchId \o <<"en">>

\* Endpoints.matchInfo(matchId)
matchInfo(e, matchId) ==
    <<"crm", "cod", "v2", "title", e.game, "platform", e.platform, "fullMatch", "wz">>
    \o matchId \o <<"en">>

\* The path method `name` of the Endpoints object e builds from the
\* arguments a; ssoToken is the value of baseSsoToken at the call.
Endpoints(e, name, a, ssoToken) ==
    CASE name = "fullData" ->
           <<"stats", "cod", "v1", "title", e.game, "platform", e.platform, e.lookupType>>
           \o e.gamertag \o <<"profile", "type", e.mode>>
      [] name = "combatHistory" ->
           <<"crm", "cod", "v2", "title", e.game, "platform", e.platform, e.lookupType>>
           \o e.gamertag \o <<"matches", e.mode, "start", "0", "end", "0", "details">>
      [] name = "combatHistoryWithDate" -> combatHistoryWithDate(e, a.startTime, a.endTime)
      [] name = "breakdown" ->
           <<"crm", "cod", "v2", "title", e.game, "platform", e.platform, e.lookupType>>
           \o e.gamertag \o <<"matches", e.mode, "start", "0", "end", "0">>
      [] name = "breakdownWithDate" -> breakdownWithDate(e, a.startTime, a.endTime)
      [] name = "matchInfo" -> matchInfo(e, a.matchId)
      [] name = "seasonLoot" ->
           <<"loot", "title", e.game, "platform", e.platform, e.lookupType>>
           \o e.gamertag \o <<"status", "en">>
      [] name = "mapList" ->
           <<"ce", "v1", "title", e.game, "platform", e.platform, "gameType", e.mode,
             "communityMapData", "availability">>
      [] name = "purchasableItems" ->
           <<"inventory", "v1", "title", a.gameId, "platform", "psn", "purchasable",
             "public", "en">>
      [] name = "bundleInformation" ->
           <<"inventory", "v1", "title", a.gameId, "bundle", a.bundleId, "en">>
      [] name = "battlePassLoot" ->
           <<"loot", "title", e.game, "platform", e.platform, "list",
             "loot_season_", ToString(a.season), "en">>
      [] name = "friendFeed" ->
           <<"userfeed", "v1", "friendFeed", "platform", e.platform, e.lookupType>>
           \o e.gamertag \o <<"friendFeedEvents", "en">>
      [] name = "eventFeed" ->
           <<"userfeed", "v1", "friendFeed", "rendered", "en">> \o ssoToken
      [] name = "loggedInIdentities" ->
           <<"crm", "cod", "v2", "identities">> \o ssoToken
      [] name = "codPoints" ->
           <<"inventory", "v1", "title", "mw", "platform", e.platform, e.lookupType>>
           \o e.gamertag \o <<"currency">>
      [] name = "connectedAccounts" ->
           <<"crm", "cod", "v2", "accounts", "platform", e.platform, e.lookupType>>
           \o e.gamertag
      [] name = "settings" ->
           <<"preferences", "v1", "platform", e.platform, e.lookupType>>
           \o e.gamertag \o <<"list">>
      [] name = "friendAction" ->
           <<"codfriends", "v1", a.action, e.platform, e.lookupType>> \o e.gamertag
      [] name = "search" ->
           <<"crm", "cod", "v2", "platform", e.platform, "username">>
           \o e.gamertag \o <<"search">>

\* The path method `name` of new TelescopeEndpoints(game, unoId, mode).
TelescopeEndpoints(game, unoId, name, a) ==
    CASE name = "lifeTime" ->
           <<"cr", "v1", "title", game, "lifetime?language=english&unoId=">> \o unoId
      [] name = "matches" ->
           <<"cr", "v1", "title", game, "matches?language=english&unoId=">> \o unoId
      [] name = "match" ->
           <<"cr", "v1", "title", game, "match">> \o a.matchId
           \o <<"?language=english&unoId=">> \o unoId

----------------------------------------------------------------------------
(* Title adapters *)

\* One adapter method: the game and mode it constructs its endpoint object
\* with, how it resolves the identity ("caller": the caller's gamertag and
\* platform, "empty": the empty gamertag and the caller's platform, "uno":
\* the caller's id on platforms.Uno, "none": no resolution), the steamSupport
\* argument it passes, the endpoint method it calls, the dispatcher it hands
\* the path to, and the parameters it takes.
Op(adapter, op, game, mode, resolve, steamSupport, endpoint, send, params) ==
    [adapter |-> adapter, op |-> op, game |-> game, mode |-> mode,
     resolve |-> resolve, steamSupport |-> steamSupport, endpoint |-> endpoint,
     send |-> send, params |-> params]

WZ ==
    {Op("WZ", "fullData", "mw", "wz", "caller", FALSE, "fullData", "sendRequest", {"gamertag", "platform"}),
     Op("WZ", "combatHistory", "mw", "wz", "caller", FALSE, "combatHistory", "sendRequest", {"gamertag", "platform"}),
     Op("WZ", "combatHistoryWithDate", "mw", "wz", "caller", FALSE, "combatHistoryWithDate", "sendRequest", {"gamertag", "startTime", "endTime", "platform"}),
     Op("WZ", "breakdown", "mw", "wz", "caller", FALSE, "breakdown", "sendRequest", {"gamertag", "platform"}),
     Op("WZ", "breakdownWithDate", "mw", "wz", "caller", FALSE, "breakdownWithDate", "sendRequest", {"gamertag", "startTime", "endTime", "platform"}),
     Op("WZ", "matchInfo", "mw", "wz", "empty", FALSE, "matchInfo", "sendRequest", {"matchId", "platform"})}

MW ==
    {Op("MW", "fullData", "mw", "mp", "caller", FALSE, "fullData", "sendRequest", {"gamertag", "platform"}),
     Op("MW", "combatHistory", "mw", "mp", "caller", FALSE, "combatHistory", "sendRequest", {"gamertag", "platform"}),
     Op("MW", "combatHistoryWithDate", "mw", "mp", "caller", FALSE, "combatHistoryWithDate", "sendRequest", {"gamertag", "startTime", "endTime", "platform"}),
     Op("MW", "breakdown", "mw", "mp", "caller", FALSE, "breakdown", "sendRequest", {"gamertag", "platform"}),
     Op("MW", "breakdownWithDate", "mw", "mp", "caller", FALSE, "breakdownWithDate", "sendRequest", {"gamertag", "startTime", "endTime", "platform"}),
     Op("MW", "matchInfo", "mw", "mp", "empty", FALSE, "matchInfo", "sendRequest", {"matchId", "platform"}),
     Op("MW", "seasonloot", "mw", "mp", "caller", FALSE, "seasonLoot", "sendRequest", {"gamertag", "platform"}),
     Op("MW", "mapList", "mw", "mp", "empty", FALSE, "mapList", "sendRequest", {"platform"})}

CW ==
    {Op("CW", "fullData", "cw", "mp", "caller", FALSE, "fullData", "sendRequest", {"gamertag", "platform"}),
     Op("CW", "combatHistory", "cw", "mp", "caller", FALSE, "combatHistory", "sendRequest", {"gamertag", "platform"}),
     Op("CW", "combatHistoryWithDate", "cw", "mp", "caller", FALSE, "combatHistoryWithDate", "sendRequest", {"gamertag", "startTime", "endTime", "platform"}),
     Op("CW", "breakdown", "cw", "mp", "caller", FALSE, "breakdown", "sendRequest", {"gamertag", "platform"}),
     Op("CW", "breakdownWithDate", "cw", "mp", "caller", FALSE, "breakdownWithDate", "sendRequest", {"gamertag", "startTime", "endTime", "platform"}),
     Op("CW", "seasonloot", "cw", "mp", "caller", FALSE, "seasonLoot", "sendRequest", {"gamertag", "platform"}),
     Op("CW", "mapList", "cw", "mp", "empty", FALSE, "mapList", "sendRequest", {"platform"}),
     Op("CW", "matchInfo", "cw", "mp", "empty", FALSE, "matchInfo", "sendRequest", {"matchId", "platform"})}

VG ==
    {Op("VG", "fullData", "vg", "mp", "caller", FALSE, "fullData", "sendRequest", {"gamertag", "platform"}),
     Op("VG", "combatHistory", "vg", "mp", "caller", FALSE, "combatHistory", "sendRequest", {"gamertag", "platform"}),
     Op("VG", "combatHistoryWithDate", "vg", "mp", "caller", FALSE, "combatHistoryWithDate", "sendRequest", {"gamertag", "startTime", "endTime", "platform"}),
     Op("VG", "breakdown", "vg", "mp", "caller", FALSE, "breakdown", "sendRequest", {"gamertag", "platform"}),
     Op("VG", "breakdownWithDate", "vg", "mp", "caller", FALSE, "breakdownWithDate", "sendRequest", {"gamertag", "startTime", "endTime", "platform"}),
     Op("VG", "seasonloot", "vg", "mp", "caller", FALSE, "seasonLoot", "sendRequest", {"gamertag", "platform"}),
     Op("VG", "mapList", "vg", "mp", "empty", FALSE, "mapList", "sendRequest", {"platform"}),
     Op("VG", "matchInfo", "vg", "mp", "empty", FALSE, "matchInfo", "sendRequest", {"matchId", "platform"})}

MW2 ==
    {Op("MW2", "fullData", "mw2", "mp", "uno", TRUE, "lifeTime", "sendTelescopeRequest", {"unoId"}),
     Op("MW2", "matches", "mw2", "mp", "uno", TRUE, "matches", "sendTelescopeRequest", {"unoId"}),
     Op("MW2", "matchInfo", "mw2", "mp", "uno", TRUE, "match", "sendTelescopeRequest", {"unoId", "matchId"})}

WZ2 ==
    {Op("WZ2", "fullData", "wz2", "mp", "uno", TRUE, "lifeTime", "sendTelescopeRequest", {"unoId"}),
     Op("WZ2", "matches", "wz2", "mp", "uno", TRUE, "matches", "sendTelescopeRequest", {"unoId"}),
     Op("WZ2", "matchInfo", "wz2", "mp", "uno", TRUE, "match", "sendTelescopeRequest", {"unoId", "matchId"})}

MW3 ==
    {Op("MW3", "fullData", "jup", "mp", "uno", TRUE, "lifeTime", "sendTelescopeRequest", {"unoId"}),
     Op("MW3", "matches", "jup", "mp", "uno", TRUE, "matches", "sendTelescopeRequest", {"unoId"}),
     Op("MW3", "matchInfo", "jup", "mp", "uno", TRUE, "match", "sendTelescopeRequest", {"unoId", "matchId"})}

WZM ==
    {Op("WZM", "fullData", "mgl", "mp", "uno", TRUE, "lifeTime", "sendTelescopeRequest", {"unoId"}),
     Op("WZM", "matches", "mgl", "mp", "uno", TRUE, "matches", "sendTelescopeRequest", {"unoId"}),
     Op("WZM", "matchInfo", "mgl", "mp", "uno", TRUE, "match", "sendTelescopeRequest", {"unoId", "matchId"})}

SHOP ==
    {Op("SHOP", "purchasableItems", "_", "_", "none", FALSE, "purchasableItems", "sendRequest", {"gameId"}),
     Op("SHOP", "bundleInformation", "_", "_", "none", FALSE, "bundleInformation", "sendRequest", {"gameId", "bundleId"}),
     Op("SHOP", "battlePassLoot", "", "_", "empty", FALSE, "battlePassLoot", "sendRequest", {"title", "season", "platform"})}

USER ==
    {Op("USER", "friendFeed", "_", "_", "caller", FALSE, "friendFeed", "sendRequest", {"gamertag", "platform"}),
     Op("USER", "eventFeed", "_", "_", "none", FALSE, "eventFeed", "sendRequest", {}),
     Op("USER", "loggedInIdentities", "_", "_", "none", FALSE, "loggedInIdentities", "sendRequest", {}),
     Op("USER", "codPoints", "_", "_", "caller", FALSE, "codPoints", "sendRequest", {"gamertag", "platform"}),
     Op("USER", "connectedAccounts", "_", "_", "caller", FALSE, "connectedAccounts", "sendRequest", {"gamertag", "platform"}),
     Op("USER", "settings", "_", "_", "caller", FALSE, "settings", "sendRequest", {"gamertag", "platform"}),
     Op("USER", "friendAction", "_", "_", "caller", FALSE, "friendAction", "sendPostRequest", {"gamertag", "platform", "action"})}

ALT ==
    {Op("ALT", "search", "_", "_", "caller", TRUE, "search", "sendRequest", {"gamertag", "platform"})}

Adapters == WZ \cup MW \cup MW2 \cup WZ2 \cup MW3 \cup WZM \cup CW \cup VG
            \cup SHOP \cup USER \cup ALT

----------------------------------------------------------------------------
(* Request dispatchers and adapter calls *)

Gamertags == {<<>>, <<"1", "2">>, <<"a", "#">>}

\* The ids handed to the telescope adapter methods.
UnoIds == Gamertags \cup {<<"1", "e", "5">>}

PlatformInputs == platforms \cup {"pc"}

\* <<startTime, endTime>>
Windows == {<<0, 0>>, <<5, 9>>}

MatchIds == {<<"7">>}

games == {"mw", "mw2", "vg", "cw", "_"}

friendActions == {"invite", "uninvite", "remove", "block", "unblock"}

Pick(o, param, values, absent) == IF param \in o.params THEN values ELSE {absent}

\* The argument lists a caller can pass to the adapter method o.
ArgsOf(o) ==
    {[NoArgs EXCEPT !.gamertag = g, !.platform = p, !.startTime = w[1],
                    !.endTime = w[2], !.unoId = u, !.matchId = m, !.title = t,
                    !.season = sn, !.gameId = gi, !.bundleId = bi, !.action = fa] :
        g \in Pick(o, "gamertag", Gamertags, <<>>),
        p \in Pick(o, "platform", PlatformInputs, ""),
        w \in Pick(o, "startTime", Windows, <<0, 0>>),
        u \in Pick(o, "unoId", UnoIds, <<>>),
        m \in Pick(o, "matchId", MatchIds, <<>>),
        t \in Pick(o, "title", games, ""),
        sn \in Pick(o, "season", {1}, 0),
        gi \in Pick(o, "gameId", {"mw"}, ""),
        bi \in Pick(o, "bundleId", {"b1"}, ""),
        fa \in Pick(o, "action", friendActions, "")}

\* The mapGamertagToPlatform call the adapter method o makes on a.
Resolve(o, a) ==
    CASE o.resolve = "caller" -> mapGamertagToPlatform(a.gamertag, a.platform, o.steamSupport)
      [] o.resolve = "empty"  -> mapGamertagToPlatform(<<>>, a.platform, o.steamSupport)
      [] o.resolve = "uno"    -> mapGamertagToPlatform(a.unoId, "uno", o.steamSupport)
      [] o.resolve = "none"   ->
           [ok |-> TRUE, error |-> NoError, gamertag |-> <<>>, _platform |-> "_",
            lookupType |-> ""]

\* The path the adapter method o hands to its dispatcher.
PathOf(o, a, id, ssoToken) ==
    IF o.send = "sendTelescopeRequest"
    THEN TelescopeEndpoints(o.game, id.gamertag, o.endpoint, a)
    ELSE Endpoints(NewEndpoints(IF "title" \in o.params THEN a.title ELSE o.game,
                                id.gamertag, id._platform, o.mode, id.lookupType),
                   o.endpoint, a, ssoToken)

\* sendRequest attaching the header object of the POST dispatcher.
sendRequestPostHeaders(c, url) ==
    /\ IF ~loggedIn
       THEN call' = Threw(c, "Error", NOT_LOGGED_IN)
       ELSE call' = Awaiting(c, [base |-> baseUrl \o apiPath, path |-> url,
                                 method |-> "GET", headers |-> basePostHeaders,
                                 body |-> <<>>])
    /\ UNCHANGED session

\* sendRequest up to its await (index.ts:155-163).
sendRequest(c, url) ==
    /\ IF ~loggedIn
       THEN call' = Threw(c, "Error", NOT_LOGGED_IN)
       ELSE call' = Awaiting(c, [base |-> baseUrl \o apiPath, path |-> url,
                                 method |-> "GET", headers |-> baseHeaders,
                                 body |-> <<>>])
    /\ UNCHANGED session

\* sendPostRequest without its logged-in guard.
sendPostRequestUnguarded(c, url, data) ==
    /\ call' = Awaiting(c, [base |-> baseUrl \o apiPath, path |-> url,
                            method |-> "POST", headers |-> basePostHeaders,
                            body |-> data])
    /\ UNCHANGED session

\* sendPostRequest up to its await (index.ts:188-194).
sendPostRequest(c, url, data) ==
    /\ IF ~loggedIn
       THEN call' = Threw(c, "Error", NOT_LOGGED_IN)
       ELSE call' = Awaiting(c, [base |-> baseUrl \o apiPath, path |-> url,
                                 method |-> "POST", headers |-> basePostHeaders,
                                 body |-> data])
    /\ UNCHANGED session

\* sendTelescopeRequest sending to the base address of the legacy backend.
sendTelescopeRequestLegacyBase(c, url) ==
    IF ~loggedIn
    THEN /\ call' = Threw(c, "Error", NOT_LOGGED_IN_TELESCOPE)
         /\ UNCHANGED session
    ELSE LET headers == SetHeader(baseTelescopeHeaders, "authorization",
                                  <<"Bearer ">> \o telescopeUnoToken)
         IN  /\ baseTelescopeHeaders' = headers
             /\ call' = Awaiting(c, [base |-> baseUrl \o apiPath,
                                     path |-> url, method |-> "GET",
                                     headers |-> headers, body |-> <<>>])
             /\ UNCHANGED <<loggedIn, baseHeaders, basePostHeaders, baseSsoToken,
                            telescopeUnoToken>>

\* sendTelescopeRequest up to its await (index.ts:132-138).
sendTelescopeRequest(c, url) ==
    IF ~loggedIn
    THEN /\ call' = Threw(c, "Error", NOT_LOGGED_IN_TELESCOPE)
         /\ UNCHANGED session
    ELSE LET headers == SetHeader(baseTelescopeHeaders, "authorization",
                                  <<"Bearer ">> \o telescopeUnoToken)
         IN  /\ baseTelescopeHeaders' = headers
             /\ call' = Awaiting(c, [base |-> baseTelescopeUrl \o apiTelescopePath,
                                     path |-> url, method |-> "GET",
                                     headers |-> headers, body |-> <<>>])
             /\ UNCHANGED <<loggedIn, baseHeaders, basePostHeaders, baseSsoToken,
                            telescopeUnoToken>>

\* A caller invokes the adapter method o with the arguments a: the method
\* runs up to the first await of its dispatcher, or to the error it throws.
AdapterCall(o, a) ==
    /\ call.phase = "idle"
    /\ LET c  == [Idle EXCEPT !.fn = "adapter", !.adapter = o.adapter,
                              !.op = o.op, !.args = a]
           id == Resolve(o, a)
       IN  IF ~id.ok
           THEN /\ call' = Threw(c, "Error", <<id.error>>)
                /\ UNCHANGED session
           ELSE CASE o.send = "sendRequest" ->
                       sendRequest(c, PathOf(o, a, id, baseSsoToken))
                  [] o.send = "sendPostRequest" ->
                       sendPostRequest(c, PathOf(o, a, id, baseSsoToken), <<"{}">>)
                  [] o.send = "sendTelescopeRequest" ->
                       sendTelescopeRequest(c, PathOf(o, a, id, baseSsoToken))
    /\ UNCHANGED <<history, resolverVars, server>>

AdapterResponses ==
    {NetworkFailure}
    \cup {Response("ok", st, "json", <<>>) : st \in {200, 404, 500}}
    \cup {Response("ok", 200, b, <<>>) : b \in {"other", "text"}}
    \cup {Response("ok", 500, "text", <<>>)}

\* The dispatchers parsing the body before they look at the status.
sendResponseParseFirst(r) ==
    /\ call.phase = "pending"
    /\ call.fn = "adapter"
    /\ LET c == [call EXCEPT !.response = r]
       IN  call' =
             IF r.net = "error" THEN Threw(c, "Error", NETWORK_ERROR)
             ELSE IF r.body = "text" THEN Threw(c, "SyntaxError", JSON_PARSE_ERROR)
             ELSE IF r.statusCode >= 500
                  THEN Threw(c, "Error", RECEIVED_STATUS_CODE(r.statusCode))
             ELSE Returned(c, <<r.body>>)
    /\ UNCHANGED <<session, history, resolverVars, server>>

\* The dispatchers treating every status from 400 on as an error.
sendResponseRejects4xx(r) ==
    /\ call.phase = "pending"
    /\ call.fn = "adapter"
    /\ LET c == [call EXCEPT !.response = r]
       IN  call' =
             IF r.net = "error" THEN Threw(c, "Error", NETWORK_ERROR)
             ELSE IF r.statusCode >= 400
                  THEN Threw(c, "Error", RECEIVED_STATUS_CODE(r.statusCode))
             ELSE IF r.body = "text" THEN Threw(c, "SyntaxError", JSON_PARSE_ERROR)
             ELSE Returned(c, <<r.body>>)
    /\ UNCHANGED <<session, history, resolverVars, server>>

\* The dispatchers sending the request once more after a status from 500 on.
sendResponseRetries(r) ==
    /\ call.phase = "pending"
    /\ call.fn = "adapter"
    /\ LET c == [call EXCEPT !.response = r]
       IN  call' =
             IF r.net = "error" THEN Threw(c, "Error", NETWORK_ERROR)
             ELSE IF r.statusCode >= 500
                  THEN IF Len(c.requests) < 2
                       THEN Awaiting(c, c.requests[1])
                       ELSE Threw(c, "Error", RECEIVED_STATUS_CODE(r.statusCode))
             ELSE IF r.body = "text" THEN Threw(c, "SyntaxError", JSON_PARSE_ERROR)
             ELSE Returned(c, <<r.body>>)
    /\ UNCHANGED <<session, history, resolverVars, server>>

\* The three dispatchers from the response on (index.ts:140-150, 165-183,
\* 196-206): the status check, then the body parse.
sendResponse(r) ==
    /\ call.phase = "pending"
    /\ call.fn = "adapter"
    /\ LET c == [call EXCEPT !.response = r]
       IN  call' =
             IF r.net = "error" THEN Threw(c, "Error", NETWORK_ERROR)
             ELSE IF r.statusCode >= 500
                  THEN Threw(c, "Error", RECEIVED_STATUS_CODE(r.statusCode))
             ELSE IF r.body = "text" THEN Threw(c, "SyntaxError", JSON_PARSE_ERROR)
             ELSE Returned(c, <<r.body>>)
    /\ UNCHANGED <<session, history, resolverVars, server>>

LoginResponses ==
    {NetworkFailure}
    \cup {Response("ok", 200, "json", t) : t \in AccessTokens}
    \cup {Response("ok", st, b, <<>>) : st \in {200, 403}, b \in {"other", "text"}}
    \cup {Response("ok", 403, "json", <<>>)}
    \cup {Response("ok", st, "text", <<>>) : st \in {404, 500}}

\* The caller takes the settled result and goes on to its next call.
CallerContinue ==
    /\ call.phase = "done"
    /\ call' = Idle
    /\ UNCHANGED <<session, history, resolverVars, server>>

----------------------------------------------------------------------------
(* The web server (src/server.js, the script of lines 202-789): route      *)
(* handlers that share the one session of the library.  Node runs a        *)
(* handler without interruption up to an await on the network or on a      *)
(* timer, so a handler runs from its start to the upstream request it      *)
(* sends, or to the response it sends, in one step.                        *)

\* The clients of the server.  Each has at most one request in progress, and
\* handlers[c] is the handler of the request of client c.
Clients == {"c1", "c2"}

\* req.body, with the empty value for a field the request does not carry.
NoBody ==
    [username |-> <<>>, ssoToken |-> <<>>, platform |-> "", game |-> "",
     apiCall |-> "", matchId |-> <<>>, userCall |-> ""]

\* What res.status(...).json(...) sends, up to the timestamp.
NoReply ==
    [http |-> 0, status |-> "", error |-> "", error_type |-> "", message |-> <<>>,
     details |-> <<>>, data |-> <<>>]

\* res.status(400).json({ error })
BadRequest(error) == [NoReply EXCEPT !.http = 400, !.error = error]

\* res.status(200).json({ status: 'error', message })
ErrorReply(message) == [NoReply EXCEPT !.http = 200, !.status = "error", !.message = message]

\* res.json({ status: 'success', data })
SuccessReply(data) == [NoReply EXCEPT !.http = 200, !.status = "success", !.data = data]

\* res.json({ status: 'partial_success', message, data: null })
PartialSuccessReply ==
    [NoReply EXCEPT !.http = 200, !.status = "partial_success",
                    !.message = <<"No data returned from API, but no error thrown">>,
                    !.data = <<"null">>]

\* error.stack of an error object: its name and message and the frames.
StackFrames == "\n    at "

stack(name, message) == <<name, ": ">> \o message \o <<StackFrames>>

INVALID_RESPONSE ==
    <<"Failed to parse API response. This usually means the SSO token is invalid or expired.">>

\* handleApiError putting the stack of the error into the response.
handleApiErrorWithStack(name, message) ==
    IF name = "SyntaxError" /\ \E i \in 1..Len(message) : message[i] = "JSON"
    THEN [ErrorReply(INVALID_RESPONSE) EXCEPT !.error_type = "InvalidResponseError"]
    ELSE [ErrorReply(message) EXCEPT !.error_type = name,
                                     !.details = stack(name, message)]

\* handleApiError(error, res) for an error of that name and message.
handleApiError(name, message) ==
    IF name = "SyntaxError" /\ \E i \in 1..Len(message) : message[i] = "JSON"
    THEN [ErrorReply(INVALID_RESPONSE) EXCEPT !.error_type = "InvalidResponseError"]
    ELSE [ErrorReply(message) EXCEPT !.error_type = name]

TIMED_OUT(ms) == <<"Request timed out after ", ToString(ms), "ms">>

NOT_A_FUNCTION(object, method) == <<"API.", object, ".", method, " is not a function">>

\* A handler: the route and body of its request, the library call it made,
\* the 30 s timer of fetchWithTimeout and the responses it has sent.
NoHandler ==
    [phase |-> "free", route |-> "", body |-> NoBody, call |-> Idle,
     timer |-> "off", sent |-> <<>>]

\* The session of the library as a record.
SessionNow ==
    [loggedIn |-> loggedIn, baseHeaders |-> baseHeaders,
     basePostHeaders |-> basePostHeaders, baseSsoToken |-> baseSsoToken,
     telescopeUnoToken |-> telescopeUnoToken,
     baseTelescopeHeaders |-> baseTelescopeHeaders]

\* API.login(ssoToken) on the session S (index.ts:213-235).
apiLogin(S, ssoToken) ==
    IF isBlankToken(ssoToken) THEN S
    ELSE [S EXCEPT !.baseHeaders = loginHeaders(@, ssoToken),
                   !.baseSsoToken = ssoToken,
                   !.basePostHeaders = loginHeaders(@, ssoToken),
                   !.loggedIn = TRUE]

\* The object the library exports has a method of that name.
HasMethod(adapter, op) == \E o \in Adapters : o.adapter = adapter /\ o.op = op

\* API.<adapter>.<op>(...a) on the session S, run to its first await or to
\* the error it throws: the call and the session it leaves.
apiCall(S, adapter, op, a) ==
    LET c == [Idle EXCEPT !.fn = "adapter", !.adapter = adapter, !.op = op, !.args = a]
    IN  IF ~HasMethod(adapter, op)
        THEN [call |-> Threw(c, "TypeError", NOT_A_FUNCTION(adapter, op)), session |-> S]
        ELSE
        LET o   == CHOOSE x \in Adapters : x.adapter = adapter /\ x.op = op
            id  == Resolve(o, a)
            url == PathOf(o, a, id, S.baseSsoToken)
            th  == SetHeader(S.baseTelescopeHeaders, "authorization",
                             <<"Bearer ">> \o S.telescopeUnoToken)
        IN  IF ~id.ok
            THEN [call |-> Threw(c, "Error", <<id.error>>), session |-> S]
            ELSE IF ~S.loggedIn
            THEN [call |-> Threw(c, "Error",
                                 IF o.send = "sendTelescopeRequest"
                                 THEN NOT_LOGGED_IN_TELESCOPE ELSE NOT_LOGGED_IN),
                  session |-> S]
            ELSE CASE o.send = "sendRequest" ->
                        [call |-> Awaiting(c, [base |-> baseUrl \o apiPath, path |-> url,
                                               method |-> "GET",
                                               headers |-> S.baseHeaders, body |-> <<>>]),
                         session |-> S]
                   [] o.send = "sendPostRequest" ->
                        [call |-> Awaiting(c, [base |-> baseUrl \o apiPath, path |-> url,
                                               method |-> "POST",
                                               headers |-> S.basePostHeaders,
                                               body |-> <<"{}">>]),
                         session |-> S]
                   [] o.send = "sendTelescopeRequest" ->
                        [call |-> Awaiting(c, [base |-> baseTelescopeUrl \o apiTelescopePath,
                                               path |-> url, method |-> "GET",
                                               headers |-> th, body |-> <<>>]),
                         session |-> [S EXCEPT !.baseTelescopeHeaders = th]]

\* The library call c settled by the response r of the upstream server
\* (index.ts:140-150, 165-183, 196-206).
apiSettle(c, r) ==
    LET d == [c EXCEPT !.response = r]
    IN  IF r.net = "error" THEN Threw(d, "Error", NETWORK_ERROR)
        ELSE IF r.statusCode >= 500
             THEN Threw(d, "Error", RECEIVED_STATUS_CODE(r.statusCode))
        ELSE IF r.body = "text" THEN Threw(d, "SyntaxError", JSON_PARSE_ERROR)
        ELSE Returned(d, <<r.body>>)

\* What a switch of a handler comes to: a response, or a library call.
Reply(reply) == [kind |-> "reply", reply |-> reply, adapter |-> "", op |-> "", args |-> NoArgs]

Invoke(adapter, op, args) ==
    [kind |-> "call", reply |-> NoReply, adapter |-> adapter, op |-> op, args |-> args]

\* The export of the library a case of the game switches names.
GameExport(game) ==
    CASE game = "mw"  -> "MW"
      [] game = "wz"  -> "WZ"
      [] game = "mw2" -> "MW2"
      [] game = "wz2" -> "WZ2"
      [] game = "mw3" -> "MW3"
      [] game = "cw"  -> "CW"
      [] game = "vg"  -> "VG"
      [] game = "wzm" -> "WZM"
      [] OTHER        -> ""

\* The cases of the game switches that pass the platform on.
PassesPlatform(game) == game \in {"mw", "wz", "cw", "vg"}

INVALID_GAME == <<"Invalid game selected">>

\* const requiresUno = ['mw2', 'wz2', 'mw3', 'wzm'].includes(game)
requiresUno(game) == game \in {"mw2", "wz2", "mw3", "wzm"}

REQUIRES_UNO(game) == <<game, " requires Uno ID (numerical ID)">>

\* The switch of /api/stats and /api/matches for the library method op,
\* fullData or combatHistory, called with (username, platform) or (username).
GameSwitch(b, op) ==
    IF GameExport(b.game) = "" THEN Reply(ErrorReply(INVALID_GAME))
    ELSE IF PassesPlatform(b.game)
    THEN Invoke(GameExport(b.game), op,
                [NoArgs EXCEPT !.gamertag = b.username, !.platform = b.platform])
    ELSE Invoke(GameExport(b.game), op, [NoArgs EXCEPT !.unoId = b.username])

\* The switch of /api/matchInfo: matchInfo(matchId, platform) or, for the
\* telescope games, matchInfo(matchId), whose first parameter is unoId and
\* whose second, matchId, is then undefined.
MatchInfoSwitch(b) ==
    IF GameExport(b.game) = "" THEN Reply(ErrorReply(INVALID_GAME))
    ELSE IF PassesPlatform(b.game)
    THEN Invoke(GameExport(b.game), "matchInfo",
                [NoArgs EXCEPT !.matchId = b.matchId, !.platform = b.platform])
    ELSE Invoke(GameExport(b.game), "matchInfo",
                [NoArgs EXCEPT !.unoId = b.matchId, !.matchId = <<"undefined">>])

\* The switch of /api/user.
UserSwitch(b) ==
    LET a == [NoArgs EXCEPT !.gamertag = b.username, !.platform = b.platform]
    IN  CASE b.userCall = "codPoints"         -> Invoke("USER", "codPoints", a)
          [] b.userCall = "connectedAccounts" -> Invoke("USER", "connectedAccounts", a)
          [] b.userCall = "eventFeed"         -> Invoke("USER", "eventFeed", NoArgs)
          [] b.userCall = "friendFeed"        -> Invoke("USER", "friendFeed", a)
          [] b.userCall = "identities"        -> Invoke("USER", "loggedInIdentities", NoArgs)
          [] b.userCall = "settings"          -> Invoke("USER", "settings", a)
          [] OTHER -> Reply(ErrorReply(<<"Invalid user API call selected">>))

\* The check of the required parameters at the start of a handler: the
\* error of the 400 response, or "" when the parameters are there.
MissingParameters(route, b) ==
    CASE route = "stats" ->
           IF b.ssoToken = <<>> THEN "SSO Token is required"
           ELSE IF b.apiCall # "mapList" /\ b.username = <<>>
                THEN "Username is required" ELSE ""
      [] route = "matches" ->
           IF b.username = <<>> \/ b.ssoToken = <<>>
           THEN "Username and SSO Token are required" ELSE ""
      [] route = "matchInfo" ->
           IF b.matchId = <<>> \/ b.ssoToken = <<>>
           THEN "Match ID and SSO Token are required" ELSE ""
      [] route = "user" ->
           IF b.ssoToken = <<>> THEN "SSO Token is required"
           ELSE IF /\ b.username = <<>>
                   /\ b.userCall \notin {"eventFeed", "friendFeed", "identities"}
                THEN "Username is required for this API call" ELSE ""
      [] route = "search" ->
           IF b.username = <<>> \/ b.ssoToken = <<>>
           THEN "Username and SSO Token are required" ELSE ""

\* The handler of a route from the login step on: the check of the platform
\* against the game, where the route has one, and the switch.
Route(route, b) ==
    CASE route = "stats" ->
           IF requiresUno(b.game) /\ b.platform # "uno" /\ b.apiCall # "mapList"
           THEN Reply(ErrorReply(REQUIRES_UNO(b.game)))
           ELSE CASE b.apiCall = "fullData"      -> GameSwitch(b, "fullData")
                  [] b.apiCall = "combatHistory" -> GameSwitch(b, "combatHistory")
                  [] b.apiCall = "mapList" ->
                       IF b.game = "mw"
                       THEN Invoke("MW", "mapList", [NoArgs EXCEPT !.platform = b.platform])
                       ELSE Reply(ErrorReply(
                                <<"Map list is only available for Modern Warfare">>))
                  [] OTHER -> Reply(PartialSuccessReply)
      [] route = "matches" ->
           IF requiresUno(b.game) /\ b.platform # "uno"
           THEN Reply(ErrorReply(REQUIRES_UNO(b.game)))
           ELSE GameSwitch(b, "combatHistory")
      [] route = "matchInfo" -> MatchInfoSwitch(b)
      [] route = "user"      -> UserSwitch(b)
      [] route = "search" ->
           Invoke("ALT", "search",
                  [NoArgs EXCEPT !.gamertag = b.username, !.platform = b.platform])

\* ensureLogin(ssoToken) on the sessions map and the library session S
\* (server.js:224-238).  login is synchronous and returns a boolean, so the
\* race with the 10 s timer settles with that boolean, which is not tested.
ensureLogin(sessions, S, ssoToken) ==
    IF ssoToken \notin sessions
    THEN [sessions |-> sessions \cup {ssoToken}, session |-> apiLogin(S, ssoToken)]
    ELSE [sessions |-> sessions, session |-> S]

\* The response of a handler to the library call c that has settled.
Settled(route, c) ==
    IF c.kind = "throw" THEN handleApiError(c.name, c.error)
    ELSE IF route = "stats" /\ c.value = <<"null">> THEN PartialSuccessReply
    ELSE SuccessReply(c.value)

\* The token fields client c1 sends: none, a blank one, its token.
ServerTokens == {<<>>, <<" ">>, <<"T">>}

ServerUsernames == {<<>>, <<"1", "2">>}

ServerPlatforms == {"uno", "psn"}

ServerGames == {"mw", "wz", "mw2", "wzm", "xx"}

ApiCalls == {"fullData", "combatHistory", "mapList"}

UserCalls == {"codPoints", "eventFeed", "identities"}

\* The request bodies client c sends to a route.  Client c1 sends every
\* combination of the fields the route reads; client c2 has the token U and
\* asks /api/stats for the lifetime statistics of one player.
Bodies(c, route) ==
    IF c = "c2"
    THEN IF route = "stats"
         THEN {[NoBody EXCEPT !.ssoToken = <<"U">>, !.username = <<"1", "2">>,
                              !.platform = "psn", !.game = "mw",
                              !.apiCall = "fullData"]}
         ELSE {}
    ELSE
    {[NoBody EXCEPT !.ssoToken = t, !.username = u, !.platform = p, !.game = g,
                    !.apiCall = ac, !.matchId = m, !.userCall = uc] :
        t \in ServerTokens,
        u \in IF route = "matchInfo" THEN {<<>>} ELSE ServerUsernames,
        p \in ServerPlatforms,
        g \in IF route \in {"stats", "matches", "matchInfo"} THEN ServerGames ELSE {""},
        ac \in IF route = "stats" THEN ApiCalls ELSE {""},
        m \in IF route = "matchInfo" THEN MatchIds \cup {<<>>} ELSE {<<>>},
        uc \in IF route = "user" THEN UserCalls ELSE {""}}

Routes == {"stats", "matches", "matchInfo", "user", "search"}

\* A request arrives and its handler runs up to the upstream request it
\* sends and awaits, or to the response it sends.
Receive(h, route, b) ==
    /\ handlers[h].phase = "free"
    /\ LET missing == MissingParameters(route, b)
           cleared == IF route = "stats"
                      THEN activeSessions \ {b.ssoToken} ELSE activeSessions
           ensured == ensureLogin(cleared, SessionNow, b.ssoToken)
           plan    == Route(route, b)
           out     == IF plan.kind = "call"
                      THEN apiCall(ensured.session, plan.adapter, plan.op, plan.args)
                      ELSE [call |-> Idle, session |-> ensured.session]
           started == [NoHandler EXCEPT !.route = route, !.body = b]
       IN  IF missing # ""
           THEN /\ handlers' = [handlers EXCEPT ![h] =
                                  [started EXCEPT !.phase = "finished",
                                                  !.sent = <<BadRequest(missing)>>]]
                /\ UNCHANGED <<session, history, activeSessions>>
           ELSE /\ activeSessions' = ensured.sessions
                /\ loggedIn' = out.session.loggedIn
                /\ baseHeaders' = out.session.baseHeaders
                /\ basePostHeaders' = out.session.basePostHeaders
                /\ baseSsoToken' = out.session.baseSsoToken
                /\ telescopeUnoToken' = out.session.telescopeUnoToken
                /\ baseTelescopeHeaders' = out.session.baseTelescopeHeaders
                /\ legacyLoginDone' = (legacyLoginDone \/ out.session.loggedIn)
                /\ UNCHANGED telescopeLoginDone
                /\ handlers' = [handlers EXCEPT ![h] =
                     IF plan.kind = "reply"
                     THEN [started EXCEPT !.phase = "finished", !.sent = <<plan.reply>>]
                     ELSE IF out.call.phase = "done"
                     THEN [started EXCEPT
                             !.phase = "finished", !.call = out.call,
                             !.sent = <<Settled(route, out.call)>>]
                     ELSE [started EXCEPT !.phase = "waiting", !.call = out.call,
                                          !.timer = "armed"]]
    /\ UNCHANGED <<call, resolverVars>>

\* UpstreamResponse answering the client whether or not the race has settled.
UpstreamResponseAlwaysReplies(h, r) ==
    /\ handlers[h].call.phase = "pending"
    /\ LET c == apiSettle(handlers[h].call, r)
       IN  handlers' = [handlers EXCEPT ![h] =
             [@ EXCEPT !.phase = "finished", !.call = c, !.timer = "off",
                       !.sent = Append(@, Settled(handlers[h].route, c))]]
    /\ UNCHANGED <<session, history, call, resolverVars, activeSessions>>

\* The upstream server answers the request of a handler: the library call
\* settles, and the handler, if it still waits for it, sends its response.
\* The timer is left running; when it goes off after the race has settled
\* nothing happens, so it is not followed any further.
UpstreamResponse(h, r) ==
    /\ handlers[h].call.phase = "pending"
    /\ LET c == apiSettle(handlers[h].call, r)
       IN  handlers' = [handlers EXCEPT ![h] =
             IF @.phase = "waiting"
             THEN [@ EXCEPT !.phase = "finished", !.call = c, !.timer = "off",
                            !.sent = Append(@, Settled(handlers[h].route, c))]
             ELSE [@ EXCEPT !.call = c]]
    /\ UNCHANGED <<session, history, call, resolverVars, activeSessions>>

\* The 30 s timer of fetchWithTimeout goes off: the race, if it has not
\* settled, rejects, and the handler sends the error; the library call goes
\* on (server.js:305-311, 217-222).
TimerFires(h) ==
    /\ handlers[h].timer = "armed"
    /\ handlers' = [handlers EXCEPT ![h] =
         IF @.phase = "waiting"
         THEN [@ EXCEPT !.phase = "finished", !.timer = "fired",
                        !.sent = Append(@, handleApiError("Error", TIMED_OUT(30000)))]
         ELSE [@ EXCEPT !.timer = "fired"]]
    /\ UNCHANGED <<session, history, call, resolverVars, activeSessions>>

\* A handler that has returned and whose library call has settled is over.
HandlerOver(h) ==
    /\ handlers[h].phase = "finished"
    /\ handlers[h].call.phase # "pending"
    /\ handlers' = [handlers EXCEPT ![h] = NoHandler]
    /\ UNCHANGED <<session, history, call, resolverVars, activeSessions>>

ServerResponses ==
    {NetworkFailure, Response("ok", 200, "json", <<>>), Response("ok", 200, "null", <<>>),
     Response("ok", 200, "text", <<>>), Response("ok", 500, "json", <<>>)}

----------------------------------------------------------------------------
(* The client *)

Init ==
    /\ loggedIn = FALSE
    /\ baseHeaders = baseHeadersInit
    /\ basePostHeaders = basePostHeadersInit
    /\ baseSsoToken = <<>>
    /\ telescopeUnoToken = <<>>
    /\ baseTelescopeHeaders = baseTelescopeHeadersInit
    /\ legacyLoginDone = FALSE
    /\ telescopeLoginDone = FALSE
    /\ call = Idle
    /\ rHandle = <<>>
    /\ rLast = NoResolution
    /\ rPrev = NoResolution
    /\ activeSessions = {}
    /\ handlers = [c \in Clients |-> NoHandler]

Next ==
    \/ \E t \in Tokens : login(t)
    \/ \E u \in Usernames, p \in Passwords : telescopeLogin(u, p)
    \/ \E r \in LoginResponses : telescopeLoginResponse(r)
    \/ \E o \in Adapters : \E a \in ArgsOf(o) : AdapterCall(o, a)
    \/ \E r \in AdapterResponses : sendResponse(r)
    \/ CallerContinue

Spec == Init /\ [][Next]_vars

NextServer ==
    \/ \E c \in Clients, route \in Routes : \E b \in Bodies(c, route) : Receive(c, route, b)
    \/ \E c \in Clients, r \in ServerResponses : UpstreamResponse(c, r)
    \/ \E c \in Clients : TimerFires(c)
    \/ \E c \in Clients : HandlerOver(c)

SpecServer == Init /\ [][NextServer]_vars

----------------------------------------------------------------------------
(* The resolver on its own: a handle is drawn at the start and resolved   *)
(* against one platform after another; the last two resolutions are kept. *)

HandleAlphabet == {"1", "0", "e", "x", ".", " ", "a", "#"}

ExampleHandles ==
    {<<"1", "e", "5">>, <<"0", "x", "1", "F">>, <<"1", ".", "5">>,
     <<" ", "1", "2", " ">>, <<"1", "2", "3", "4", "5">>,
     <<"g", "a", "m", "e", "r", "#", "1", "2", "3", "4">>,
     <<"a", "/", "b">>}

Handles == SeqsUpTo(HandleAlphabet, MaxHandleLen) \cup ExampleHandles

Resolution(platform, steamSupport, out) ==
    [applied |-> TRUE, platform |-> platform, steamSupport |-> steamSupport, out |-> out]

InitResolve ==
    /\ loggedIn = FALSE
    /\ baseHeaders = baseHeadersInit
    /\ basePostHeaders = basePostHeadersInit
    /\ baseSsoToken = <<>>
    /\ telescopeUnoToken = <<>>
    /\ baseTelescopeHeaders = baseTelescopeHeadersInit
    /\ legacyLoginDone = FALSE
    /\ telescopeLoginDone = FALSE
    /\ call = Idle
    /\ rHandle \in Handles
    /\ rLast = NoResolution
    /\ rPrev = NoResolution
    /\ activeSessions = {}
    /\ handlers = [c \in Clients |-> NoHandler]

ResolveHandle(platform, steamSupport) ==
    /\ rPrev' = rLast
    /\ rLast' = Resolution(platform, steamSupport,
                           mapGamertagToPlatform(rHandle, platform, steamSupport))
    /\ UNCHANGED <<session, history, call, rHandle, server>>

NextResolve == \E p \in PlatformInputs, s \in BOOLEAN : ResolveHandle(p, s)

SpecResolve == InitResolve /\ [][NextResolve]_vars

----------------------------------------------------------------------------
(* Properties *)

\* The adapter method the current call invoked.
CallOp == CHOOSE o \in Adapters : o.adapter = call.adapter /\ o.op = call.op

AdapterCalled == call.fn = "adapter" /\ call.phase \in {"pending", "done"}

TelescopeCalled == AdapterCalled /\ CallOp.send = "sendTelescopeRequest"

LegacyCalled == AdapterCalled /\ CallOp.send \in {"sendRequest", "sendPostRequest"}

\* The token is empty or consists of white space only.
WhiteSpaceOnly(token) == AllIn(token, WhiteSpace)

NotLoggedInThrown ==
    /\ call.phase = "done"
    /\ call.kind = "throw"
    /\ call.error \in {NOT_LOGGED_IN, NOT_LOGGED_IN_TELESCOPE}

\* C1: an adapter call issues a network request only if the login of its own
\* backend has succeeded: a telescope-title call only after a successful
\* telescopeLogin, a legacy call only after a successful login(token).
C1_BackendsIndependent ==
    /\ (TelescopeCalled /\ call.requests # <<>>) => telescopeLoginDone
    /\ (LegacyCalled /\ call.requests # <<>>) => legacyLoginDone

\* C2: authentication is never revoked: once login(token) has returned true,
\* no later legacy call is stopped by the not-logged-in guard.
C2_LegacyLoginNeverRevoked ==
    (legacyLoginDone /\ LegacyCalled) => ~NotLoggedInThrown

\* C3: while no login has ever succeeded, every adapter call with valid
\* arguments fails with the not-logged-in error and issues no network request.
C3_NoLoginNoRequest ==
    (/\ ~legacyLoginDone
     /\ ~telescopeLoginDone
     /\ AdapterCalled
     /\ Resolve(CallOp, call.args).ok)
    => (NotLoggedInThrown /\ call.requests = <<>>)

C3_Witness ==
    /\ ~legacyLoginDone
    /\ ~telescopeLoginDone
    /\ AdapterCalled
    /\ CallOp.send = "sendPostRequest"
    /\ call.args.platform = "battle"
    /\ call.error = NOT_LOGGED_IN
    /\ call.requests = <<>>

\* C4: login with an empty or white-space-only token returns false, issues
\* no network request and leaves the whole session state as it was.
C4_BlankLoginChangesNothing ==
    [][(/\ call.phase = "idle"
        /\ call'.fn = "login"
        /\ WhiteSpaceOnly(call'.args.ssoToken))
       => (/\ call'.phase = "done"
           /\ call'.kind = "return"
           /\ call'.value = False
           /\ call'.requests = <<>>
           /\ UNCHANGED session)]_vars

C4_Witness ==
    /\ call.fn = "login"
    /\ call.phase = "done"
    /\ call.args.ssoToken = <<" ">>
    /\ call.value = False
    /\ loggedIn
    /\ baseSsoToken # <<>>

\* C5: telescopeLogin with a missing username or password returns false,
\* issues no network request and leaves the authenticated flag and the
\* stored telescope token unchanged.
C5_MissingCredentialsChangeNothing ==
    [][(/\ call.phase = "idle"
        /\ call'.fn = "telescopeLogin"
        /\ (call'.args.username = <<>> \/ call'.args.password = <<>>))
       => (/\ call'.phase = "done"
           /\ call'.kind = "return"
           /\ call'.value = False
           /\ call'.requests = <<>>
           /\ UNCHANGED <<loggedIn, telescopeUnoToken>>)]_vars

C5_Witness ==
    /\ call.fn = "telescopeLogin"
    /\ call.phase = "done"
    /\ call.args.username # <<>>
    /\ call.args.password = <<>>
    /\ call.value = False
    /\ loggedIn
    /\ telescopeUnoToken # <<>>

\* C6: login with a non-blank token returns true without a network request,
\* and the GET headers, the POST headers and the stored SSO token it leaves
\* are those login leaves on a fresh session for the same token, whatever
\* logins came before.
C6_LoginStateFromTokenAlone ==
    (/\ call.fn = "login"
     /\ call.phase = "done"
     /\ ~WhiteSpaceOnly(call.args.ssoToken))
    => (/\ call.kind = "return"
        /\ call.value = True
        /\ call.requests = <<>>
        /\ loggedIn
        /\ baseHeaders = loginHeaders(baseHeadersInit, call.args.ssoToken)
        /\ basePostHeaders = loginHeaders(basePostHeadersInit, call.args.ssoToken)
        /\ baseSsoToken = call.args.ssoToken)

C6_Witness ==
    /\ call.fn = "login"
    /\ call.phase = "done"
    /\ call.value = True
    /\ call.previousSsoToken # <<>>
    /\ call.previousSsoToken # call.args.ssoToken
    /\ baseSsoToken = call.args.ssoToken

\* C7: telescopeLogin with both credentials issues exactly one network
\* request and classifies the status of the response: 200 stores the access
\* token the body carries, sets the authenticated flag and returns true; 403
\* returns false with the flag cleared; any other status returns false with
\* the flag cleared and the stored token unchanged.
C7_TelescopeLoginClassifiesStatus ==
    [][(/\ call.phase = "pending"
        /\ call.fn = "telescopeLogin"
        /\ call'.phase = "done"
        /\ call'.response.net = "ok"
        /\ call'.response.statusCode = 200 => call'.response.body = "json")
       => (/\ Len(call'.requests) = 1
           /\ call'.kind = "return"
           /\ IF call'.response.statusCode = 200
              THEN /\ call'.value = True
                   /\ loggedIn'
                   /\ telescopeUnoToken' = call'.response.accessToken
              ELSE /\ call'.value = False
                   /\ ~loggedIn'
                   /\ call'.response.statusCode # 403
                      => telescopeUnoToken' = telescopeUnoToken)]_vars

\* C8: on the platform uno, resolution succeeds for the empty handle and for
\* a handle made of digits only, and fails with the numerical-ID error for
\* every other handle.
C8_UnoAcceptsDigitsOnly ==
    (rLast.applied /\ rLast.platform = "uno")
    => IF rHandle = <<>> \/ IsDigits(rHandle)
       THEN rLast.out.ok
       ELSE ~rLast.out.ok /\ rLast.out.error = UNO_NO_NUMERICAL_ID

\* C9: an adapter call that is given the platform steam fails with the
\* steam-unsupported error unless the method passes the override, and the
\* only method with a platform parameter that passes it is search of ALT.
C9_SteamOnlyForSearch ==
    (/\ AdapterCalled
     /\ "platform" \in CallOp.params
     /\ call.args.platform = "steam")
    => (/\ CallOp.steamSupport <=> (call.adapter = "ALT" /\ call.op = "search")
        /\ (call.kind = "throw" /\ call.error = <<STEAM_UNSUPPORTED>>)
           <=> ~CallOp.steamSupport)

C9_Witness ==
    /\ AdapterCalled
    /\ call.adapter = "ALT"
    /\ call.op = "search"
    /\ call.args.platform = "steam"
    /\ call.args.gamertag = <<"a", "#">>
    /\ call.phase = "done"
    /\ call.kind = "return"

\* C10: a handle made of digits resolves on acti and on uno to the same wire
\* platform uno and the same handle, with lookup type gamer on acti and id on
\* uno; and a resolution has lookup type id exactly when the platform given
\* was uno.
C10_LookupTypeFollowsInputPlatform ==
    /\ (rLast.applied /\ rLast.out.ok)
       => (rLast.out.lookupType = "id" <=> rLast.platform = "uno")
    /\ (/\ rLast.applied
        /\ rPrev.applied
        /\ IsDigits(rHandle)
        /\ rPrev.platform = "acti"
        /\ rLast.platform = "uno")
       => (/\ rPrev.out.ok
           /\ rLast.out.ok
           /\ rPrev.out._platform = "uno"
           /\ rLast.out._platform = "uno"
           /\ rPrev.out.gamertag = rLast.out.gamertag
           /\ rPrev.out.lookupType = "gamer"
           /\ rLast.out.lookupType = "id")

C10_Witness ==
    /\ rLast.applied
    /\ rPrev.applied
    /\ rHandle = <<"1", "2", "3", "4", "5">>
    /\ rPrev.platform = "acti"
    /\ rLast.platform = "uno"
    /\ rPrev.out.lookupType = "gamer"
    /\ rLast.out.lookupType = "id"

\* C11: a resolution that succeeds hands on the percent-encoded handle, free
\* of the characters "#", "/" and " ", exactly when the platform given is
\* battle, acti or uno; on every other platform it hands on the handle as
\* given, reserved characters included.
C11_EncodedOnBattleActiUnoOnly ==
    (rLast.applied /\ rLast.out.ok)
    => IF rLast.platform \in {"battle", "acti", "uno"}
       THEN /\ rLast.out.gamertag = encodeURIComponent(rHandle)
            /\ \A i \in 1..Len(rLast.out.gamertag) :
                   rLast.out.gamertag[i] \notin {"#", "/", " "}
       ELSE rLast.out.gamertag = rHandle

C11_Witness ==
    /\ rLast.applied
    /\ rPrev.applied
    /\ rHandle = <<"a", "/", "b">>
    /\ rPrev.platform = "battle"
    /\ rPrev.out.ok
    /\ rPrev.out.gamertag = <<"a", "%", "2", "F", "b">>
    /\ rLast.platform = "psn"
    /\ rLast.out.ok
    /\ rLast.out.gamertag = <<"a", "/", "b">>

\* C12: a resolution on a recognized platform succeeds unless the platform
\* is steam without the override or the platform is uno with a handle that
\* is not made of digits; and a resolution, whether it succeeds or fails,
\* leaves the session state and the call in progress as they were.
C12_ResolutionSucceedsAndIsPure ==
    [][rLast'.applied
       => /\ (/\ rLast'.platform \in platforms
              /\ ~(rLast'.platform = "steam" /\ ~rLast'.steamSupport)
              /\ ~(rLast'.platform = "uno" /\ rHandle # <<>> /\ ~IsDigits(rHandle)))
             => rLast'.out.ok
          /\ UNCHANGED <<session, call>>]_vars

C12_Witness ==
    /\ rLast.applied
    /\ rPrev.applied
    /\ rHandle = <<"g", "a", "m", "e", "r", "#", "1", "2", "3", "4">>
    /\ rPrev.platform = "steam"
    /\ rPrev.steamSupport
    /\ rPrev.out.ok
    /\ rLast.platform = "uno"
    /\ ~rLast.out.ok
    /\ call = Idle
    /\ ~loggedIn

\* C13: an adapter call that is given a platform outside the recognized tags
\* fails with the platform validation error and sends no request, whatever
\* the handle, whether or not the method passes the steam override, and
\* whether or not the session is logged in.
C13_UnrecognizedPlatformRejected ==
    (/\ AdapterCalled
     /\ "platform" \in CallOp.params
     /\ call.args.platform \notin platforms)
    => (/\ call.phase = "done"
        /\ call.kind = "throw"
        /\ call.error = <<PLATFORM_NOT_VALID>>
        /\ call.requests = <<>>)

C13_Witness ==
    /\ AdapterCalled
    /\ call.adapter = "ALT"
    /\ call.op = "search"
    /\ CallOp.steamSupport
    /\ call.args.platform = "pc"
    /\ call.args.gamertag = <<"1", "2">>
    /\ loggedIn
    /\ call.kind = "throw"
    /\ call.error = <<PLATFORM_NOT_VALID>>

\* C14: the path of a match-detail request of a legacy title is made of the
\* game code, the wire platform, the literal "wz" in the mode segment and the
\* match id, whether the mode of the title is mp or wz; neither a handle nor
\* a lookup type is part of it.
C14_MatchInfoModeIsWz ==
    (/\ AdapterCalled
     /\ call.adapter \in {"WZ", "MW", "CW", "VG"}
     /\ call.op = "matchInfo"
     /\ call.requests # <<>>)
    => (/\ CallOp.mode \in {"mp", "wz"}
        /\ call.requests[1].path =
             <<"crm", "cod", "v2", "title", CallOp.game, "platform",
               IF call.args.platform \in {"uno", "acti"}
               THEN "uno" ELSE call.args.platform,
               "fullMatch", "wz">>
             \o call.args.matchId \o <<"en">>)

C14_Witness ==
    /\ AdapterCalled
    /\ call.adapter = "CW"
    /\ call.op = "matchInfo"
    /\ CallOp.mode = "mp"
    /\ call.args.platform = "acti"
    /\ Len(call.requests) = 1
    /\ call.requests[1].path[9] = "wz"

\* C15: a combatHistoryWithDate request with start 0 and end 0 has the path
\* the combatHistory method of the same title builds for the same handle and
\* platform, and a breakdownWithDate request with start 0 and end 0 the path
\* of breakdown.
C15_ZeroWindowIsPlainPath ==
    (/\ AdapterCalled
     /\ call.op \in {"combatHistoryWithDate", "breakdownWithDate"}
     /\ call.args.startTime = 0
     /\ call.args.endTime = 0
     /\ call.requests # <<>>)
    => \E o \in Adapters :
          /\ o.adapter = call.adapter
          /\ o.op = (IF call.op = "combatHistoryWithDate"
                      THEN "combatHistory" ELSE "breakdown")
          /\ call.requests[1].path =
               PathOf(o, [call.args EXCEPT !.startTime = 0, !.endTime = 0],
                      Resolve(o, call.args), baseSsoToken)

C15_Witness ==
    /\ AdapterCalled
    /\ call.adapter = "VG"
    /\ call.op = "combatHistoryWithDate"
    /\ call.args.startTime = 0
    /\ call.args.endTime = 0
    /\ call.args.gamertag = <<"a", "#">>
    /\ call.args.platform = "battle"
    /\ Len(call.requests) = 1
    /\ Len(call.requests[1].path) = 19
    /\ call.requests[1].path[16] = "0"
    /\ call.requests[1].path[18] = "0"
    /\ call.requests[1].path[19] = "details"

\* C16: an adapter call whose request is answered with a status of 500 or
\* more fails with an error whose message holds that status code, on the
\* legacy and the telescope backend and for GET and POST alike, whether the
\* body is well-formed JSON or not.
C16_ServerErrorStatusThrows ==
    (/\ AdapterCalled
     /\ call.phase = "done"
     /\ call.response.net = "ok"
     /\ call.response.statusCode >= 500)
    => (/\ call.kind = "throw"
        /\ call.name = "Error"
        /\ \E i \in 1..Len(call.error) :
              call.error[i] = ToString(call.response.statusCode)
        /\ call.error[1] = "Received status code: ")

C16_Witness ==
    /\ TelescopeCalled
    /\ call.phase = "done"
    /\ call.response.statusCode = 500
    /\ call.response.body = "text"
    /\ call.kind = "throw"
    /\ call.error[2] = "500"

\* C17: an adapter call whose request is answered with a status below 500
\* returns the parsed body as it is when the body is JSON, an error payload
\* and a 4xx status included; when the body is not JSON it fails with a
\* SyntaxError, which differs in name and message from the status error and
\* from the not-logged-in errors.
C17_BodyReturnedOrParseError ==
    (/\ AdapterCalled
     /\ call.phase = "done"
     /\ call.response.net = "ok"
     /\ call.response.statusCode < 500)
    => IF call.response.body \in {"json", "other"}
       THEN call.kind = "return" /\ call.value = <<call.response.body>>
       ELSE /\ call.kind = "throw"
            /\ call.name = "SyntaxError"
            /\ call.error \notin {NOT_LOGGED_IN, NOT_LOGGED_IN_TELESCOPE,
                                  RECEIVED_STATUS_CODE(call.response.statusCode)}

C17_Witness ==
    /\ LegacyCalled
    /\ call.phase = "done"
    /\ call.response.statusCode = 404
    /\ call.response.body = "json"
    /\ call.kind = "return"
    /\ call.value = <<"json">>

\* C18: an adapter call sends at most one request; once the response is in,
\* the call is settled without another request; and a call that fails has
\* the error of the first check that failed: the validation error of the
\* resolver, else the not-logged-in error of the guard, else the network,
\* status or parse error of the one response.
C18_OneRequestNoRetry ==
    [][/\ call'.fn = "adapter" => Len(call'.requests) <= 1
       /\ (call.fn = "adapter" /\ call.phase = "pending")
          => (call'.phase = "done" /\ call'.requests = call.requests)
       /\ (call'.fn = "adapter" /\ call'.phase = "done" /\ call'.kind = "throw")
          => LET o  == CHOOSE x \in Adapters :
                          x.adapter = call'.adapter /\ x.op = call'.op
                 id == Resolve(o, call'.args)
             IN  IF ~id.ok
                 THEN call'.error = <<id.error>> /\ call'.requests = <<>>
                 ELSE IF call'.requests = <<>>
                 THEN call'.error \in {NOT_LOGGED_IN, NOT_LOGGED_IN_TELESCOPE}
                 ELSE IF call'.response.net = "error"
                 THEN call'.error = NETWORK_ERROR
                 ELSE IF call'.response.statusCode >= 500
                 THEN call'.error = RECEIVED_STATUS_CODE(call'.response.statusCode)
                 ELSE call'.error = JSON_PARSE_ERROR]_vars

C18_Witness ==
    /\ AdapterCalled
    /\ call.adapter = "USER"
    /\ call.op = "friendAction"
    /\ call.phase = "done"
    /\ Len(call.requests) = 1
    /\ call.requests[1].method = "POST"
    /\ call.response.statusCode = 500
    /\ call.kind = "throw"

\* C19: a request of WZ, MW, CW or VG goes to the legacy backend; a request
\* of MW2, WZ2, MW3 or WZM goes to the telescope backend, and its path is
\* the lifetime, the matches or the match-by-id path of the game code of
\* that title, with language=english and the id the caller gave.
C19_TitleHasOneBackend ==
    (/\ AdapterCalled
     /\ call.requests # <<>>)
    => LET req  == call.requests[1]
           id   == encodeURIComponent(call.args.unoId)
           game == CASE call.adapter = "MW2" -> "mw2"
                     [] call.adapter = "WZ2" -> "wz2"
                     [] call.adapter = "MW3" -> "jup"
                     [] call.adapter = "WZM" -> "mgl"
       IN  /\ call.adapter \in {"WZ", "MW", "CW", "VG"}
              => req.base = "https://profile.callofduty.com/api/papi-client"
           /\ call.adapter \in {"MW2", "WZ2", "MW3", "WZM"}
              => (/\ req.base = "https://telescope.callofduty.com/api/ts-api"
                  /\ req.method = "GET"
                  /\ req.path \in
                       {<<"cr", "v1", "title", game, "lifetime?language=english&unoId=">>
                          \o id,
                        <<"cr", "v1", "title", game, "matches?language=english&unoId=">>
                          \o id,
                        <<"cr", "v1", "title", game, "match">> \o call.args.matchId
                          \o <<"?language=english&unoId=">> \o id})

C19_Witness ==
    /\ AdapterCalled
    /\ call.adapter = "WZM"
    /\ call.op = "matchInfo"
    /\ call.args.unoId = <<"1", "2">>
    /\ Len(call.requests) = 1
    /\ call.requests[1].base = "https://telescope.callofduty.com/api/ts-api"
    /\ call.requests[1].path =
         <<"cr", "v1", "title", "mgl", "match", "7", "?language=english&unoId=", "1", "2">>

\* C20: a telescope adapter call that is given an id that is not empty and
\* not made of digits only fails with the numerical-id validation error and
\* sends no request, whether or not the session is logged in.
C20_TelescopeIdDigitsOnly ==
    (/\ TelescopeCalled
     /\ call.args.unoId # <<>>
     /\ ~IsDigits(call.args.unoId))
    => (/\ call.phase = "done"
        /\ call.kind = "throw"
        /\ call.error = <<UNO_NO_NUMERICAL_ID>>
        /\ call.requests = <<>>)

\* C21: when eventFeed or loggedInIdentities of USER sends a request, a
\* legacy login has succeeded on the session and the last segment of the
\* path is the token of the latest such login, which is not empty.
C21_TokenSegmentFromLegacyLogin ==
    (/\ AdapterCalled
     /\ call.adapter = "USER"
     /\ call.op \in {"eventFeed", "loggedInIdentities"}
     /\ call.requests # <<>>)
    => (/\ legacyLoginDone
        /\ baseSsoToken # <<>>
        /\ call.requests[1].path \in
             {<<"userfeed", "v1", "friendFeed", "rendered", "en">> \o baseSsoToken,
              <<"crm", "cod", "v2", "identities">> \o baseSsoToken})

\* C22: on a session whose legacy login succeeded and that is logged in,
\* fullData of a legacy title with a handle holding "#" and the platform
\* acti sends exactly one GET to the legacy backend; its path has the wire
\* platform uno, the lookup type gamer and the percent-encoded handle, its
\* headers are those login synthesizes from the stored token, and a JSON
\* answer below 500 is returned as parsed.
C22_FullDataEndToEnd ==
    (/\ AdapterCalled
     /\ call.adapter \in {"WZ", "MW", "CW", "VG"}
     /\ call.op = "fullData"
     /\ call.args.gamertag = <<"a", "#">>
     /\ call.args.platform = "acti"
     /\ legacyLoginDone
     /\ loggedIn)
    => (/\ Len(call.requests) = 1
        /\ call.requests[1].method = "GET"
        /\ call.requests[1].base = "https://profile.callofduty.com/api/papi-client"
        /\ call.requests[1].path =
             <<"stats", "cod", "v1", "title", CallOp.game, "platform", "uno", "gamer",
               "a", "%", "2", "3", "profile", "type", CallOp.mode>>
        /\ call.requests[1].headers["content-type"] = <<"application/json">>
        /\ call.requests[1].headers["Atvi-Auth"] = baseSsoToken
        /\ call.requests[1].headers["ACT_SSO_COOKIE"] = baseSsoToken
        /\ call.requests[1].headers["atkn"] = baseSsoToken
        /\ call.requests[1].headers["cookie"] = loginCookie(baseSsoToken)
        /\ (/\ call.phase = "done"
            /\ call.response.net = "ok"
            /\ call.response.statusCode < 500
            /\ call.response.body = "json")
           => (call.kind = "return" /\ call.value = <<"json">>))

C22_Witness ==
    /\ AdapterCalled
    /\ call.adapter = "MW"
    /\ call.op = "fullData"
    /\ call.args.gamertag = <<"a", "#">>
    /\ call.args.platform = "acti"
    /\ baseSsoToken = <<"T">>
    /\ call.phase = "done"
    /\ Len(call.requests) = 1
    /\ call.response.statusCode = 200
    /\ call.kind = "return"
    /\ call.value = <<"json">>

\* C26: an adapter call that resolves a platform or a handle and is given an
\* unrecognized platform, steam without the override, or on uno a handle
\* that is not empty and not made of digits only, fails with the validation
\* error of the resolver and sends no request, logged in or not.
C26_ValidationBeforeLoginGuard ==
    LET platform == IF CallOp.resolve = "uno" THEN "uno" ELSE call.args.platform
        handle   == CASE CallOp.resolve = "uno"    -> call.args.unoId
                      [] CallOp.resolve = "caller" -> call.args.gamertag
                      [] OTHER                     -> <<>>
    IN  (/\ AdapterCalled
         /\ CallOp.resolve \in {"caller", "empty", "uno"}
         /\ \/ platform \notin platforms
            \/ platform = "steam" /\ ~CallOp.steamSupport
            \/ platform = "uno" /\ handle # <<>> /\ ~IsDigits(handle))
        => (/\ call.phase = "done"
            /\ call.kind = "throw"
            /\ call.error \in {<<PLATFORM_NOT_VALID>>, <<STEAM_UNSUPPORTED>>,
                               <<UNO_NO_NUMERICAL_ID>>}
            /\ call.requests = <<>>)

\* C23: the upstream request a handler sends to the legacy backend for a
\* request with a token login accepts carries the headers login synthesizes
\* from that token.
C23_UpstreamUsesOwnToken ==
    \A c \in Clients :
        LET h == handlers[c]
        IN  (/\ h.call.requests # <<>>
             /\ h.call.requests[1].base = "https://profile.callofduty.com/api/papi-client"
             /\ ~WhiteSpaceOnly(h.body.ssoToken))
            => (/\ "atkn" \in DOMAIN h.call.requests[1].headers
                /\ h.call.requests[1].headers["atkn"] = h.body.ssoToken
                /\ h.call.requests[1].headers["Atvi-Auth"] = h.body.ssoToken
                /\ h.call.requests[1].headers["cookie"] = loginCookie(h.body.ssoToken))

\* C24: a handler sends at most one response; when the 30 s timer goes off
\* while the handler waits for the library call, the handler sends the
\* timeout error and the library call stays in flight as it was; and when
\* that call settles afterwards, the responses sent stay as they are.
C24_AbandonNotCancel ==
    [][\A c \in Clients :
          LET h == handlers[c]
              g == handlers'[c]
          IN  /\ Len(g.sent) <= 1
              /\ (h.phase = "waiting" /\ h.timer = "armed" /\ g.timer = "fired")
                 => (/\ g.sent = <<[NoReply EXCEPT
                                      !.http = 200, !.status = "error",
                                      !.error_type = "Error",
                                      !.message = <<"Request timed out after ",
                                                    "30000", "ms">>]>>
                     /\ g.call = h.call
                     /\ g.call.phase = "pending")
              /\ (h.phase = "finished" /\ h.call.phase = "pending")
                 => (g.phase = "finished" /\ g.sent = h.sent)]_vars

C24_Witness ==
    /\ handlers["c1"].phase = "finished"
    /\ handlers["c1"].timer = "fired"
    /\ handlers["c1"].call.phase = "done"
    /\ handlers["c1"].call.kind = "return"
    /\ handlers["c1"].call.response.statusCode = 200
    /\ Len(handlers["c1"].sent) = 1
    /\ handlers["c1"].sent[1].message = TIMED_OUT(30000)

C27_FailedLoginGivesLoginError ==
    \A c \in Clients :
        LET h == handlers[c]
        IN  (/\ h.phase # "free"
             /\ MissingParameters(h.route, h.body) = ""
             /\ WhiteSpaceOnly(h.body.ssoToken))
            => (/\ h.call.requests = <<>>
                /\ Len(h.sent) = 1
                /\ h.sent[1].status = "error"
                /\ h.sent[1].error_type = "LoginError")

\* C28: a request to /api/stats, /api/matches or /api/matchInfo for one of
\* the games mw2, wz2, mw3, wzm with a platform other than uno is answered
\* with the requires-Uno-ID error, and no upstream request is sent for it.
C28_TelescopeGameRequiresUno ==
    \A c \in Clients :
        LET h == handlers[c]
        IN  (/\ h.phase # "free"
             /\ h.route \in {"stats", "matches", "matchInfo"}
             /\ MissingParameters(h.route, h.body) = ""
             /\ h.body.game \in {"mw2", "wz2", "mw3", "wzm"}
             /\ h.body.platform # "uno")
            => (/\ h.call.requests = <<>>
                /\ Len(h.sent) = 1
                /\ h.sent[1].status = "error"
                /\ h.sent[1].message = <<h.body.game, " requires Uno ID (numerical ID)">>)

\* C29: a request to /api/matches, or to /api/stats with apiCall
\* combatHistory, for a telescope game with the platform uno, an id made of
\* digits and the token T sends one telescope matches request for that id,
\* and the JSON it is answered with is returned with status success.
C29_TelescopeCombatHistory ==
    \A c \in Clients :
        LET h == handlers[c]
        IN  (/\ h.phase # "free"
             /\ \/ h.route = "matches"
                \/ h.route = "stats" /\ h.body.apiCall = "combatHistory"
             /\ h.body.game \in {"mw2", "wz2", "mw3", "wzm"}
             /\ h.body.platform = "uno"
             /\ h.body.username # <<>>
             /\ IsDigits(h.body.username)
             /\ h.body.ssoToken = <<"T">>)
            => (/\ Len(h.call.requests) = 1
                /\ h.call.requests[1].base = "https://telescope.callofduty.com/api/ts-api"
                /\ h.call.requests[1].path[5] = "matches?language=english&unoId="
                /\ SubSeq(h.call.requests[1].path, 6, Len(h.call.requests[1].path))
                     = h.body.username
                /\ (h.call.phase = "done" /\ h.call.kind = "return" /\ h.timer # "fired")
                   => (h.sent = <<[NoReply EXCEPT !.http = 200, !.status = "success",
                                                   !.data = h.call.value]>>))

\* C30: the telescope request a handler of /api/matchInfo sends for a
\* telescope game is the match-by-id request whose match id segment is the
\* matchId of the request.
C30_MatchInfoPassesMatchId ==
    \A c \in Clients :
        LET h == handlers[c]
        IN  (/\ h.route = "matchInfo"
             /\ h.body.game \in {"mw2", "wz2", "mw3", "wzm"}
             /\ h.call.requests # <<>>)
            => (/\ h.call.requests[1].path[5] = "match"
                /\ SubSeq(h.call.requests[1].path, 6, 5 + Len(h.body.matchId))
                     = h.body.matchId
                /\ h.call.requests[1].path[6 + Len(h.body.matchId)]
                     = "?language=english&unoId=")

====
